---- MODULE Spec2Model ----
(***************************************************************************)
(* Novice application review (dictionary/views/admin/novices.py).          *)
(*                                                                         *)
(* The store holds Author rows, Entry rows, Message rows, the admin log    *)
(* (LogEntry rows written by log_admin) and the outbox of send_mail calls. *)
(* Every request runs to completion before the next one starts; req and    *)
(* resp hold the last request served and the response it got.              *)
(*                                                                         *)
(* Usernames, e-mail addresses and primary keys of authors are the same    *)
(* small integers; timestamps are small integers around the threshold.     *)
(***************************************************************************)
EXTENDS Integers, Sequences, FiniteSets, TLC

\* ---------------------------------------------------------------- bounds
NUsers == 12        \* authors in the store
MaxDate == 2        \* application dates are 1..MaxDate
NFree == 3          \* authors whose fields are drawn freely in InitQuery
NRace == 2           \* pending applicants of the store of a race or a review to the end
MaxRequests == 1     \* requests one admin makes in a race
MaxDecided == 1     \* applicants decided upon in one run of Spec

\* ------------------------------------------------------ program constants
NULL == -1                  \* Python None / SQL NULL
time_threshold_24h == 5     \* utils.settings.time_threshold_24h
GENERIC_SUPERUSER_ID == 0   \* utils.settings.GENERIC_SUPERUSER_ID
redirect_back == -2         \* the submit_type value "redirect_back"
ListLimit == 10             \* novice_list(10) in NoviceList.get_queryset
GateWindow == 10            \* novices[:10] in NoviceLookup.dispatch
EntryLimit == 10            \* [:10] in NoviceLookup.get_queryset

Users == 1..NUsers
Dates == 1..MaxDate
Times == {time_threshold_24h - 1, time_threshold_24h, time_threshold_24h + 1}
Admins == {"admin1"}
Statuses == {"PN", "AP", "OH"}
\* request.POST.get("operation"): "None" stands for a POST without the field.
Operations == {"accept", "decline", "delete", "None"}
\* Rows with equal sort keys come back in an order the database chooses.
TieOrders == {"pk_asc", "pk_desc"}
\* A username no Author row has.
NoSuchUser == NUsers + 1

VARIABLES
    authors,    \* Author rows: pk -> fields
    entries,    \* Entry rows: set of [id, author, is_published]
    messages,   \* Message rows composed, oldest first
    emails,     \* send_mail calls made, oldest first
    audit,      \* LogEntry rows written by log_admin, oldest first
    req,        \* the last request
    resp,       \* the response to it
    inflight    \* the requests being served side by side: admin -> progress

vars == <<authors, entries, messages, emails, audit, req, resp, inflight>>
store == <<authors, entries, messages, emails, audit>>

\* ------------------------------------------------------------ SQL helpers
\* A comparison with NULL is unknown, and a filter drops the row.
SqlGt(a, b) == a # NULL /\ b # NULL /\ a > b
SqlLt(a, b) == a # NULL /\ b # NULL /\ a < b
SqlGte(a, b) == a # NULL /\ b # NULL /\ a >= b
SqlLte(a, b) == a # NULL /\ b # NULL /\ a <= b

\* queryset[:n]
RECURSIVE Slice(_, _)
Slice(q, n) ==
    IF n <= 0 \/ q = <<>> THEN <<>>
    ELSE <<Head(q)>> \o Slice(Tail(q), n - 1)

SeqRange(q) == {q[i] : i \in 1..Len(q)}

\* Primary-key order among rows whose ORDER BY keys are equal.
TieBefore(x, y, tb) == IF tb = "pk_asc" THEN x < y ELSE x > y

\* ----------------------------------------------------------- novice_list
\* Fault: the first When written with > instead of >=.
activity_strict(a) ==
    IF SqlGt(a.last_activity, time_threshold_24h) THEN 2
    ELSE IF SqlLte(a.last_activity, time_threshold_24h) THEN 1
    ELSE NULL

\* The annotation activity=Case(When(last_activity >= threshold, then=2),
\*                              When(last_activity <= threshold, then=1)).
activity(a) ==
    IF SqlGte(a.last_activity, time_threshold_24h) THEN 2
    ELSE IF SqlLte(a.last_activity, time_threshold_24h) THEN 1
    ELSE NULL

\* Fault: the filter without application_status="PN".
novice_filter_any_status(a) ==
    /\ a.last_activity # NULL
    /\ a.is_novice

\* filter(last_activity__isnull=False, is_novice=True, application_status="PN")
novice_filter(a) ==
    /\ a.last_activity # NULL
    /\ a.is_novice
    /\ a.application_status = "PN"

\* order_by("-activity", "application_date"): x comes before y.  No row that
\* passes novice_filter has a NULL key (PendingHasKeys below).
OrderBefore(auth, x, y, tb) ==
    LET ax == activity(auth[x])
        ay == activity(auth[y])
        dx == auth[x].application_date
        dy == auth[y].application_date
    IN  \/ ax > ay
        \/ ax = ay /\ dx < dy
        \/ ax = ay /\ dx = dy /\ TieBefore(x, y, tb)

RECURSIVE order_by(_, _, _)
order_by(S, auth, tb) ==
    IF S = {} THEN <<>>
    ELSE LET m == CHOOSE x \in S : \A y \in S \ {x} : OrderBefore(auth, x, y, tb)
         IN  <<m>> \o order_by(S \ {m}, auth, tb)

\* Fault: the limit is not applied.
novice_list_ignores_limit(auth, tb, limit) ==
    order_by({u \in Users : novice_filter(auth[u])}, auth, tb)

novice_list(auth, tb, limit) ==
    LET novice_queryset == order_by({u \in Users : novice_filter(auth[u])}, auth, tb)
    IN  IF limit # NULL THEN Slice(novice_queryset, limit) ELSE novice_queryset

\* ------------------------------------------------------------ NoviceLookup
Note(level, text) == [level |-> level, text |-> text]

\* Fault: dispatch without the novices[:10] check.
dispatch_no_window(novices, username) ==
    IF username \notin Users
    THEN [found |-> FALSE, novice |-> NULL, notes |-> <<>>]
    ELSE IF username \notin SeqRange(novices)
    THEN [found |-> TRUE, novice |-> NULL, notes |-> <<Note("error", "not_in_list")>>]
    ELSE [found |-> TRUE, novice |-> username, notes |-> <<>>]

\* Fault: the test of the window is inverted: dispatch lets through whoever
\* is not among the first 10.
dispatch_window_inverted(novices, username) ==
    IF username \notin Users
    THEN [found |-> FALSE, novice |-> NULL, notes |-> <<>>]
    ELSE IF username \notin SeqRange(novices)
    THEN [found |-> TRUE, novice |-> NULL, notes |-> <<Note("error", "not_in_list")>>]
    ELSE IF username \in SeqRange(Slice(novices, GateWindow))
    THEN [found |-> TRUE, novice |-> NULL, notes |-> <<Note("error", "not_at_top")>>]
    ELSE [found |-> TRUE, novice |-> username, notes |-> <<>>]

\* dispatch, lines 63-74: the Author row loaded, and the gate.  novices is
\* what novice_list() returned on line 64.
dispatch(novices, username) ==
    IF username \notin Users
    THEN [found |-> FALSE, novice |-> NULL, notes |-> <<>>]
    ELSE IF username \notin SeqRange(novices)
    THEN [found |-> TRUE, novice |-> NULL, notes |-> <<Note("error", "not_in_list")>>]
    ELSE IF username \notin SeqRange(Slice(novices, GateWindow))
    THEN [found |-> TRUE, novice |-> NULL, notes |-> <<Note("error", "not_at_top")>>]
    ELSE [found |-> TRUE, novice |-> username, notes |-> <<>>]

RECURSIVE SortedIds(_)
SortedIds(S) ==
    IF S = {} THEN <<>>
    ELSE LET m == CHOOSE x \in S : \A y \in S : x <= y
         IN  <<m>> \o SortedIds(S \ {m})

\* Entry.objects_published.filter(author=novice).order_by("id")[:10]
get_queryset(ent, novice) ==
    Slice(SortedIds({e.id : e \in {x \in ent : x.author = novice /\ x.is_published}}),
          EntryLimit)

\* .order_by("application_date").first() over a set of author pks
first_by_date(S, auth, tb) ==
    IF S = {} THEN NULL
    ELSE CHOOSE x \in S : \A y \in S \ {x} :
            \/ auth[x].application_date < auth[y].application_date
            \/ /\ auth[x].application_date = auth[y].application_date
               /\ TieBefore(x, y, tb)

\* Fault: application_date__gte instead of application_date__gt.
get_next_username_gte(auth, user, tb) ==
    LET active == {u \in Users :
                      /\ auth[u].is_novice
                      /\ auth[u].application_status = "PN"
                      /\ SqlGt(auth[u].last_activity, time_threshold_24h)
                      /\ SqlGte(auth[u].application_date, user.application_date)}
        inactive == {u \in Users :
                      /\ auth[u].is_novice
                      /\ auth[u].application_status = "PN"
                      /\ SqlLt(auth[u].last_activity, time_threshold_24h)
                      /\ SqlGte(auth[u].application_date, user.application_date)}
        first_try == IF user.last_activity >= time_threshold_24h
                     THEN first_by_date(active, auth, tb)
                     ELSE NULL
    IN  IF first_try = NULL THEN first_by_date(inactive, auth, tb) ELSE first_try

\* get_next_username, lines 106-123; user is the in-memory row of the novice.
get_next_username(auth, user, tb) ==
    LET active == {u \in Users :
                      /\ auth[u].is_novice
                      /\ auth[u].application_status = "PN"
                      /\ SqlGt(auth[u].last_activity, time_threshold_24h)
                      /\ SqlGt(auth[u].application_date, user.application_date)}
        inactive == {u \in Users :
                      /\ auth[u].is_novice
                      /\ auth[u].application_status = "PN"
                      /\ SqlLt(auth[u].last_activity, time_threshold_24h)
                      /\ SqlGt(auth[u].application_date, user.application_date)}
        first_try == IF user.last_activity >= time_threshold_24h
                     THEN first_by_date(active, auth, tb)
                     ELSE NULL
    IN  IF first_try = NULL THEN first_by_date(inactive, auth, tb) ELSE first_try

\* Fault: is_novice is not cleared.
accept_save_keeps_novice(user) ==
    [user EXCEPT !.application_status = "AP"]

\* user.save() in accept_application, lines 126-129
accept_save(user) ==
    [user EXCEPT !.application_status = "AP", !.is_novice = FALSE]

\* Fault: application_date is not cleared.
decline_save_keeps_date(user) ==
    [user EXCEPT !.application_status = "OH"]

\* Fault: application_status is not changed.
decline_save_keeps_status(user) ==
    [user EXCEPT !.application_date = NULL]

\* user.save() in decline_application, lines 142-144
decline_save(user) ==
    [user EXCEPT !.application_status = "OH", !.application_date = NULL]

\* Fault: the delete runs on every entry of the author, drafts included.
delete_all_entries(ent, pk) ==
    {e \in ent : e.author # pk}

\* Entry.objects_published.filter(author=user).delete(), line 141
delete_published(ent, pk) ==
    {e \in ent : ~(e.author = pk /\ e.is_published)}

\* Fault: the log entry is written in nobody's name.
LogEntry_anonymous(actor, pk, text) ==
    [user |-> "AnonymousUser", object_id |-> pk, change_message |-> text]

\* log_admin(msg, request.user, Author, user), lines 131 and 145-146
LogEntry(actor, pk, text) == [user |-> actor, object_id |-> pk, change_message |-> text]
Message(recipient, text) ==
    [sender |-> GENERIC_SUPERUSER_ID, recipient |-> recipient, body |-> text]
Mail(to, subject) == [to |-> to, subject |-> subject]

\* accept_application, lines 125-137, up to and including the send_mail call.
accept_application(pk, user, actor) ==
    /\ authors' = [authors EXCEPT ![pk] = accept_save(user)]
    /\ audit' = Append(audit, LogEntry(actor, pk, "accepted"))
    /\ messages' = Append(messages, Message(pk, "application_accept_message"))
    /\ emails' = Append(emails, Mail(pk, "accepted"))
    /\ UNCHANGED entries

\* decline_application, lines 139-152, up to and including the send_mail call.
decline_application(pk, user, actor) ==
    /\ entries' = delete_published(entries, pk)
    /\ authors' = [authors EXCEPT ![pk] = decline_save(user)]
    /\ audit' = Append(audit, LogEntry(actor, pk, "declined"))
    /\ messages' = Append(messages, Message(pk, "application_decline_message"))
    /\ emails' = Append(emails, Mail(pk, "declined"))

\* --------------------------------------------------------------- responses
Request(view, actor, method, username, operation, submit_type) ==
    [view |-> view, user |-> actor, method |-> method, username |-> username,
     operation |-> operation, submit_type |-> submit_type]

Response(kind, location, location_user, notes, object_list, novice_count, next) ==
    [kind |-> kind, location |-> location, location_user |-> location_user,
     notes |-> notes, object_list |-> object_list, novice_count |-> novice_count,
     next |-> next]

Redirect(location, location_user, notes) ==
    Response("redirect", location, location_user, notes, <<>>, NULL, NULL)

NoResponse == Response("none", "", NULL, <<>>, <<>>, NULL, NULL)
NoRequest == Request("none", "", "", NULL, "None", NULL)

\* Applicants some admin has decided upon (the rows the admin log refers to).
Decided == {audit[i].object_id : i \in 1..Len(audit)}

\* The admins whose requests are served side by side, and a request slot
\* that serves none.
RaceAdmins == {"admin1", "admin2"}
Idle == [pc |-> "idle", username |-> NULL, operation |-> "None", user |-> NULL,
         served |-> 0]

\* ------------------------------------------------------------------ stores
PendingRow(la, d) ==
    [is_novice |-> TRUE, application_status |-> "PN",
     application_date |-> d, last_activity |-> la]
\* A novice who has not applied, or whose application was declined.
OnHoldRow ==
    [is_novice |-> TRUE, application_status |-> "OH",
     application_date |-> NULL, last_activity |-> time_threshold_24h + 1]
\* An author whose application was accepted.
AuthorRow ==
    [is_novice |-> FALSE, application_status |-> "AP",
     application_date |-> 1, last_activity |-> time_threshold_24h + 1]
\* A pending novice without any recorded activity.
SilentRow == PendingRow(NULL, 1)

\* The rows an author of a query store may be, numbered.
NFreeRows == 3 * MaxDate + 3
FreeRow(k) ==
    IF k <= 3 * MaxDate
    THEN PendingRow(time_threshold_24h - 1 + ((k - 1) % 3), 1 + ((k - 1) \div 3))
    ELSE IF k = 3 * MaxDate + 1 THEN SilentRow
    ELSE IF k = 3 * MaxDate + 2 THEN OnHoldRow
    ELSE AuthorRow

\* Every author has a published entry; odd authors also have a draft, even
\* authors a second published entry.
InitEntries ==
    {[id |-> u, author |-> u, is_published |-> TRUE] : u \in Users}
    \cup {[id |-> NUsers + u, author |-> u, is_published |-> (u % 2 = 0)] : u \in Users}

\* A store whose first c authors are pending, tiers and dates cycling with
\* the pk, and whose other authors are not in the queue.
CutStore(c) ==
    [u \in Users |->
        IF u <= c
        THEN PendingRow(time_threshold_24h + 1 - ((u - 1) % 3), 1 + (((u - 1) \div 3) % MaxDate))
        ELSE IF u % 3 = 0 THEN OnHoldRow
        ELSE IF u % 3 = 1 THEN AuthorRow
        ELSE SilentRow]

Cuts == {NFree, NUsers}

InitRest ==
    /\ entries = InitEntries
    /\ messages = <<>>
    /\ emails = <<>>
    /\ audit = <<>>
    /\ req = NoRequest
    /\ resp = NoResponse
    /\ inflight = [a \in RaceAdmins |-> Idle]

\* The stores of the review workflow.
Init ==
    /\ \E c \in Cuts : authors = CutStore(c)
    /\ InitRest

\* A queue longer than the gate's window: author 1 is active, the last
\* author is inactive with a later date, and everybody between them was last
\* active exactly at the threshold.
BoundaryStore ==
    [u \in Users |->
        IF u = 1 THEN PendingRow(time_threshold_24h + 1, 1)
        ELSE IF u = NUsers THEN PendingRow(time_threshold_24h - 1, MaxDate)
        ELSE PendingRow(time_threshold_24h, 1 + (u % MaxDate))]

\* The store of the review that goes from one applicant on to the next.
InitContinue ==
    /\ authors = BoundaryStore
    /\ InitRest

\* The stores of the queries: the first NFree authors are any rows (up to a
\* renaming of the authors: row numbers do not decrease with the pk) and the
\* others are not in the queue; or one of the stores of Init.
InitQuery ==
    /\ \/ \E g \in [1..NFree -> 1..NFreeRows] :
             /\ \A i \in 1..(NFree - 1) : g[i] <= g[i + 1]
             /\ authors = [u \in Users |-> IF u <= NFree THEN FreeRow(g[u]) ELSE OnHoldRow]
       \/ \E c \in Cuts : authors = CutStore(c)
    /\ InitRest

\* ---------------------------------------------------------------- requests
\* NoviceList: get_queryset and get_context_data, lines 38-46.
NoviceListGet(actor, tb) ==
    /\ req' = Request("novice_list", actor, "GET", NULL, "None", NULL)
    /\ \E object_list \in {novice_list(authors, tb, ListLimit)},
          novice_count \in {Len(novice_list(authors, tb, NULL))} :
            resp' = Response("render", "", NULL, <<>>, object_list, novice_count, NULL)
    /\ UNCHANGED <<store, inflight>>

\* What dispatch answers when it does not hand the request on, lines 63, 73-74.
Refused(d) ==
    IF ~d.found
    THEN Response("http404", "", NULL, <<>>, <<>>, NULL, NULL)
    ELSE Redirect("admin:novice_list", NULL, d.notes)

\* NoviceLookup, GET: dispatch (its outcome is d), get_queryset, get_context_data.
NoviceLookupGet(d, actor, username, tb) ==
    /\ req' = Request("novice_lookup", actor, "GET", username, "None", NULL)
    /\ resp' = IF d.novice = NULL
               THEN Refused(d)
               ELSE Response("render", "", NULL, <<>>,
                             get_queryset(entries, d.novice), NULL,
                             get_next_username(authors, authors[d.novice], tb))
    /\ UNCHANGED <<store, inflight>>

\* Fault: post without the check of the operation: an unknown operation
\* runs neither branch and the request is redirected as after a decision.
post_unvalidated(actor, pk, user, operation, submit_type) ==
    IF operation \notin {"accept", "decline"}
    THEN /\ resp' = IF submit_type = redirect_back
                    THEN Redirect("admin:novice_list", NULL, <<>>)
                    ELSE Redirect("admin:novice_lookup", submit_type, <<>>)
         /\ UNCHANGED store
    ELSE /\ IF operation = "accept"
            THEN accept_application(pk, user, actor)
            ELSE decline_application(pk, user, actor)
         /\ \E mail_ok \in BOOLEAN :
              resp' = IF ~mail_ok
                      THEN Response("error500", "", NULL, <<>>, <<>>, NULL, NULL)
                      ELSE IF submit_type = redirect_back
                      THEN Redirect("admin:novice_list", NULL,
                                    <<Note("success", operation)>>)
                      ELSE Redirect("admin:novice_lookup", submit_type,
                                    <<Note("success", operation)>>)

\* Fault: the request runs in one transaction, so that a send_mail that
\* raises takes the writes of the request back.
post_in_transaction(actor, pk, user, operation, submit_type) ==
    IF operation \notin {"accept", "decline"}
    THEN /\ resp' = Redirect("admin:novice_lookup", pk,
                             <<Note("error", "invalid_operation")>>)
         /\ UNCHANGED store
    ELSE \/ /\ IF operation = "accept"
               THEN accept_application(pk, user, actor)
               ELSE decline_application(pk, user, actor)
            /\ resp' = IF submit_type = redirect_back
                       THEN Redirect("admin:novice_list", NULL,
                                     <<Note("success", operation)>>)
                       ELSE Redirect("admin:novice_lookup", submit_type,
                                     <<Note("success", operation)>>)
         \/ /\ resp' = Response("error500", "", NULL, <<>>, <<>>, NULL, NULL)
            /\ UNCHANGED store

\* post, lines 89-104, for the novice dispatch admitted.
post(actor, pk, user, operation, submit_type) ==
    IF operation \notin {"accept", "decline"}
    THEN /\ resp' = Redirect("admin:novice_lookup", pk,
                             <<Note("error", "invalid_operation")>>)
         /\ UNCHANGED store
    ELSE /\ IF operation = "accept"
            THEN accept_application(pk, user, actor)
            ELSE decline_application(pk, user, actor)
         \* send_mail(fail_silently=False) returns, or raises and ends the request
         /\ \E mail_ok \in BOOLEAN :
              resp' = IF ~mail_ok
                      THEN Response("error500", "", NULL, <<>>, <<>>, NULL, NULL)
                      ELSE IF submit_type = redirect_back
                      THEN Redirect("admin:novice_list", NULL,
                                    <<Note("success", operation)>>)
                      ELSE Redirect("admin:novice_lookup", submit_type,
                                    <<Note("success", operation)>>)

\* NoviceLookup, POST: dispatch (its outcome is d), then post.
NoviceLookupPost(d, actor, username, operation, submit_type) ==
    /\ req' = Request("novice_lookup", actor, "POST", username, operation, submit_type)
    /\ IF d.novice = NULL
       THEN /\ resp' = Refused(d)
            /\ UNCHANGED store
       ELSE post(actor, d.novice, authors[d.novice], operation, submit_type)
    /\ UNCHANGED inflight

\* The submit buttons of the lookup page: back to the list, or on to the
\* next novice when there is one.
SubmitTypes(d, operation, tb) ==
    {redirect_back} \cup
    (IF d.novice # NULL /\ operation \in {"accept", "decline"}
     THEN {get_next_username(authors, authors[d.novice], tb)} \ {NULL}
     ELSE {})

ListRequests ==
    \E tb \in TieOrders, actor \in Admins : NoviceListGet(actor, tb)

\* Both lookup requests start with dispatch: it runs novice_list() and
\* checks the username against it.
GetRequests ==
    \E tb \in TieOrders : \E novices \in {novice_list(authors, tb, NULL)} :
        \E username \in Users \cup {NoSuchUser} : \E d \in {dispatch(novices, username)} :
            \E actor \in Admins : NoviceLookupGet(d, actor, username, tb)

\* A run of Spec decides upon at most MaxDecided different applicants.
WithinBudget(d, operation) ==
    (d.novice # NULL /\ operation \in {"accept", "decline"})
        => (d.novice \in Decided \/ Cardinality(Decided) < MaxDecided)

PostRequests ==
    \E tb \in TieOrders : \E novices \in {novice_list(authors, tb, NULL)} :
        \E username \in Users \cup {NoSuchUser} : \E d \in {dispatch(novices, username)} :
            \E operation \in Operations : \E submit_type \in SubmitTypes(d, operation, tb) :
                \E actor \in Admins :
                    /\ WithinBudget(d, operation)
                    /\ NoviceLookupPost(d, actor, username, operation, submit_type)

Next == ListRequests \/ GetRequests \/ PostRequests

Spec == Init /\ [][Next]_vars

SpecContinue == InitContinue /\ [][Next]_vars

\* ------------------------------------------------ requests side by side
\* Two admins post on the lookup view at the same time.  Every query and every
\* write of a request is a step of its own (the ORM commits each statement),
\* and the requests share nothing but the store.
RaceUsernames == (1..(NRace + 1)) \cup {NoSuchUser}
Finished == {"done", "failed", "refused", "invalid", "http404"}
Writing == {"delete", "save", "log", "message", "mail"}
At(a, pc) == inflight[a].pc = pc
Goto(a, pc) == inflight' = [inflight EXCEPT ![a].pc = pc]
Accepting(a) == inflight[a].operation = "accept"

\* dispatch, line 62: get_object_or_404 reads the row into self.novice.
RaceLoad(a, username, operation) ==
    /\ inflight[a].pc \in {"idle"} \cup Finished
    /\ inflight[a].served < MaxRequests
    /\ inflight' = [inflight EXCEPT ![a] =
            [pc |-> IF username \in Users THEN "loaded" ELSE "http404",
             username |-> username,
             operation |-> operation,
             user |-> IF username \in Users THEN authors[username] ELSE NULL,
             served |-> inflight[a].served + 1]]
    /\ UNCHANGED <<store, req, resp>>

\* dispatch, lines 65-74, then the check of the operation in post, lines 90-95.
RaceGate(a, tb) ==
    /\ At(a, "loaded")
    /\ \E d \in {dispatch(novice_list(authors, tb, NULL), inflight[a].username)} :
          Goto(a, IF d.novice = NULL THEN "refused"
                  ELSE IF inflight[a].operation \notin {"accept", "decline"} THEN "invalid"
                  ELSE IF Accepting(a) THEN "save"
                  ELSE "delete")
    /\ UNCHANGED <<store, req, resp>>

\* decline_application, line 141
RaceDelete(a) ==
    /\ At(a, "delete")
    /\ entries' = delete_published(entries, inflight[a].username)
    /\ Goto(a, "save")
    /\ UNCHANGED <<authors, messages, emails, audit, req, resp>>

\* Fault: save() writes only the fields the request has set
\* (update_fields), the others stay as the row has them.
RaceSave_update_fields(a) ==
    /\ At(a, "save")
    /\ \E row \in {IF Accepting(a)
                    THEN accept_save(authors[inflight[a].username])
                    ELSE decline_save(authors[inflight[a].username])} :
          /\ authors' = [authors EXCEPT ![inflight[a].username] = row]
          /\ inflight' = [inflight EXCEPT ![a].pc = "log", ![a].user = row]
    /\ UNCHANGED <<entries, messages, emails, audit, req, resp>>

\* Fault: save() finds the row changed since it was read and gives up.
RaceSave_checks_row(a) ==
    /\ At(a, "save")
    /\ authors[inflight[a].username].application_status = "PN"
    /\ \E row \in {IF Accepting(a)
                    THEN accept_save(inflight[a].user)
                    ELSE decline_save(inflight[a].user)} :
          /\ authors' = [authors EXCEPT ![inflight[a].username] = row]
          /\ inflight' = [inflight EXCEPT ![a].pc = "log", ![a].user = row]
    /\ UNCHANGED <<entries, messages, emails, audit, req, resp>>

\* user.save(), lines 129 and 144: every field of the row is written from
\* the copy the request holds.
RaceSave(a) ==
    /\ At(a, "save")
    /\ \E row \in {IF Accepting(a)
                    THEN accept_save(inflight[a].user)
                    ELSE decline_save(inflight[a].user)} :
          /\ authors' = [authors EXCEPT ![inflight[a].username] = row]
          /\ inflight' = [inflight EXCEPT ![a].pc = "log", ![a].user = row]
    /\ UNCHANGED <<entries, messages, emails, audit, req, resp>>

\* log_admin, lines 131 and 145-146
RaceLog(a) ==
    /\ At(a, "log")
    /\ audit' = Append(audit, LogEntry(a, inflight[a].username,
                                       IF Accepting(a) THEN "accepted" ELSE "declined"))
    /\ Goto(a, "message")
    /\ UNCHANGED <<authors, entries, messages, emails, req, resp>>

\* Message.objects.compose, lines 132-133 and 147-148
RaceMessage(a) ==
    /\ At(a, "message")
    /\ messages' = Append(messages,
                          Message(inflight[a].username,
                                  IF Accepting(a) THEN "application_accept_message"
                                  ELSE "application_decline_message"))
    /\ Goto(a, "mail")
    /\ UNCHANGED <<authors, entries, emails, audit, req, resp>>

\* send_mail, lines 134-135 and 149-150, and the end of the request: the
\* success note and the redirect, or the error send_mail raised.
RaceMail(a) ==
    /\ At(a, "mail")
    /\ emails' = Append(emails, Mail(inflight[a].username,
                                     IF Accepting(a) THEN "accepted" ELSE "declined"))
    /\ \E mail_ok \in BOOLEAN : Goto(a, IF mail_ok THEN "done" ELSE "failed")
    /\ UNCHANGED <<authors, entries, messages, audit, req, resp>>

RaceWrite(a) ==
    RaceDelete(a) \/ RaceSave(a) \/ RaceLog(a) \/ RaceMessage(a) \/ RaceMail(a)

RaceRequests ==
    \E a \in RaceAdmins, username \in RaceUsernames, operation \in Operations :
        RaceLoad(a, username, operation)
RaceGates == \E a \in RaceAdmins, tb \in TieOrders : RaceGate(a, tb)
RaceWrites == \E a \in RaceAdmins : RaceWrite(a)

NextRace == RaceRequests \/ RaceGates \/ RaceWrites

InitRace ==
    /\ authors = CutStore(NRace)
    /\ InitRest

SpecRace == InitRace /\ [][NextRace]_vars

\* ------------------------------------------------- the review to the end
\* The admins work on a queue of NRace applicants for as long as they like:
\* any request at any time, and no bound on the decisions.
DrainPosts ==
    \E tb \in TieOrders : \E novices \in {novice_list(authors, tb, NULL)} :
        \E username \in Users \cup {NoSuchUser} : \E d \in {dispatch(novices, username)} :
            \E operation \in Operations : \E submit_type \in SubmitTypes(d, operation, tb) :
                \E actor \in Admins :
                    NoviceLookupPost(d, actor, username, operation, submit_type)

\* The rows novice_list() selects, line 19.
Queued == {u \in Users : novice_filter(authors[u])}

\* Some admin accepts or declines some applicant dispatch admits.
Decide ==
    /\ Queued # {}
    /\ \E tb \in TieOrders : \E novices \in {novice_list(authors, tb, NULL)} :
          \E username \in Queued : \E d \in {dispatch(novices, username)} :
              \E operation \in {"accept", "decline"} :
                  \E submit_type \in SubmitTypes(d, operation, tb) : \E actor \in Admins :
                      /\ d.novice # NULL
                      /\ NoviceLookupPost(d, actor, username, operation, submit_type)

NextDrain == ListRequests \/ GetRequests \/ DrainPosts

InitDrain ==
    /\ authors = CutStore(NRace)
    /\ InitRest

\* The admins keep deciding: a decision that stays possible is taken.
SpecDrain == InitDrain /\ [][NextDrain]_vars /\ WF_vars(Decide)

NextQuery == ListRequests \/ GetRequests

SpecQuery == InitQuery /\ [][NextQuery]_vars

\* ------------------------------------------------------------------ typing
TypeOK ==
    /\ authors \in [Users -> [is_novice : BOOLEAN, application_status : Statuses,
                              application_date : Dates \cup {NULL},
                              last_activity : Times \cup {NULL}]]
    /\ entries \subseteq InitEntries
    /\ Len(messages) = Len(audit)
    /\ Len(emails) = Len(audit)

\* Every row in the queue has both sort keys.
PendingHasKeys ==
    \A u \in Users :
        novice_filter(authors[u]) =>
            activity(authors[u]) # NULL /\ authors[u].application_date # NULL

\* ================================================================== claims
\* The words of the claims, spelled out on the rows themselves.
Eligible(u) ==
    /\ authors[u].is_novice
    /\ authors[u].application_status = "PN"
    /\ authors[u].last_activity # NULL
EligibleSet == {u \in Users : Eligible(u)}
Tier(u) == IF authors[u].last_activity >= time_threshold_24h THEN 2 ELSE 1
\* v is ahead of u in every ordering by (tier descending, date ascending).
Ahead(v, u) ==
    \/ Tier(v) > Tier(u)
    \/ Tier(v) = Tier(u) /\ authors[v].application_date < authors[u].application_date
\* u is 11th or below in the queue, however rows with equal keys are ordered.
RankedBeyond(u) ==
    Eligible(u) /\ Cardinality({v \in EligibleSet : Ahead(v, u)}) >= GateWindow
\* u is among the first 10 of the queue, however rows with equal keys are ordered.
GateAdmitted(u) ==
    Eligible(u) /\ Cardinality({v \in EligibleSet \ {u} : ~Ahead(u, v)}) < GateWindow
HasNote(r, level) == \E i \in 1..Len(r.notes) : r.notes[i].level = level
RefusedToList(r) ==
    r.kind = "redirect" /\ r.location = "admin:novice_list" /\ HasNote(r, "error")
Min(a, b) == IF a < b THEN a ELSE b

\* C1: novice_list() returns the eligible applicants, each once, sorted by
\* activity tier descending (tier 2 when last_activity >= threshold, equality
\* included, tier 1 otherwise) and within a tier by application_date
\* ascending; A (active, Jan 1), B (active, Jan 2), C (inactive, Jan 1) gives
\* [A, B, C].
C1_ExampleStore ==
    /\ authors[1] = PendingRow(time_threshold_24h - 1, 1)
    /\ authors[2] = PendingRow(time_threshold_24h + 1, 1)
    /\ authors[3] = PendingRow(time_threshold_24h + 1, 2)
    /\ EligibleSet = {1, 2, 3}
C1_QueueSorted ==
    \A tb \in TieOrders :
        LET q == novice_list(authors, tb, NULL)
        IN  /\ SeqRange(q) = EligibleSet
            /\ Len(q) = Cardinality(EligibleSet)
            /\ \A i \in 1..Len(q) : \A j \in 1..Len(q) :
                   i < j =>
                     \/ Tier(q[i]) > Tier(q[j])
                     \/ /\ Tier(q[i]) = Tier(q[j])
                        /\ authors[q[i]].application_date <= authors[q[j]].application_date
            /\ C1_ExampleStore => q = <<2, 3, 1>>
C1_Witness ==
    /\ C1_ExampleStore
    /\ req.view = "novice_list"
    /\ resp.kind = "render"
    /\ resp.object_list = <<2, 3, 1>>

\* C2: in every reachable state the review queue holds exactly the applicants
\* with is_novice true, application_status pending and last_activity present;
\* no applicant with is_novice false or another status is in it.
C2_QueueMembers ==
    \A tb \in TieOrders :
        LET members == SeqRange(novice_list(authors, tb, NULL))
        IN  /\ members = {u \in Users : authors[u].is_novice
                                        /\ authors[u].application_status = "PN"
                                        /\ authors[u].last_activity # NULL}
            /\ \A u \in Users :
                   (~authors[u].is_novice \/ authors[u].application_status # "PN")
                       => u \notin members
C2_Witness ==
    /\ Len(audit) > 0
    /\ EligibleSet # {}
    /\ \E u \in Users : ~authors[u].is_novice
    /\ \E u \in Users : authors[u].is_novice /\ authors[u].application_status = "OH"
    /\ audit[1].object_id \notin SeqRange(novice_list(authors, "pk_asc", NULL))

\* C3: a GET or POST on the lookup view of an applicant who is in the queue but
\* ranked 11th or below is answered by an error notification and a redirect
\* to the queue list, and writes nothing, whatever operation it carries.
C3_BeyondWindowRefused ==
    [][(/\ req'.view = "novice_lookup"
        /\ req'.username \in Users
        /\ RankedBeyond(req'.username))
       => (RefusedToList(resp') /\ UNCHANGED store)]_vars
C3_Witness ==
    /\ req.view = "novice_lookup"
    /\ req.method = "POST"
    /\ req.operation = "accept"
    /\ req.username \in Users
    /\ RankedBeyond(req.username)
    /\ RefusedToList(resp)
    /\ audit = <<>>

\* The request of a step: a POST on the lookup view of u with this operation.
PostOn(u, operations) ==
    /\ req'.view = "novice_lookup"
    /\ req'.method = "POST"
    /\ req'.username = u
    /\ req'.operation \in operations
\* The step adds exactly one message, one e-mail and one log entry, all three
\* about applicant u, and leaves the older ones as they were.
OneOfEach(u, body, subject) ==
    /\ messages' = Append(messages, [sender |-> GENERIC_SUPERUSER_ID,
                                     recipient |-> u, body |-> body])
    /\ emails' = Append(emails, [to |-> u, subject |-> subject])
    /\ Len(audit') = Len(audit) + 1
    /\ SubSeq(audit', 1, Len(audit)) = audit
    /\ audit'[Len(audit')].object_id = u

\* C4: an accept on a gate-admitted applicant leaves the applicant accepted
\* and no longer a novice, composes exactly one message and makes exactly one
\* send_mail call to the applicant, writes exactly one log entry, and deletes
\* no entry.
C4_AcceptEffect ==
    [][\A u \in Users :
         (PostOn(u, {"accept"}) /\ GateAdmitted(u))
         => /\ authors'[u].application_status = "AP"
            /\ ~authors'[u].is_novice
            /\ OneOfEach(u, "application_accept_message", "accepted")
            /\ entries' = entries]_vars
C4_Witness ==
    /\ req.view = "novice_lookup"
    /\ req.method = "POST"
    /\ req.operation = "accept"
    /\ req.username \in Users
    /\ authors[req.username].application_status = "AP"
    /\ ~authors[req.username].is_novice
    /\ resp.kind = "redirect"
    /\ HasNote(resp, "success")
    /\ Len(messages) = 1 /\ Len(emails) = 1 /\ Len(audit) = 1
    /\ entries = InitEntries

\* C5: a decline on a gate-admitted applicant removes every published entry
\* of the applicant, leaves the applicant on hold with no application_date,
\* and creates exactly one message, one e-mail and one log entry.
C5_DeclineEffect ==
    [][\A u \in Users :
         (PostOn(u, {"decline"}) /\ GateAdmitted(u))
         => /\ authors'[u].application_status = "OH"
            /\ authors'[u].application_date = NULL
            /\ OneOfEach(u, "application_decline_message", "declined")
            /\ entries' \subseteq entries
            /\ ~\E e \in entries' : e.author = u /\ e.is_published]_vars
C5_Witness ==
    /\ req.view = "novice_lookup"
    /\ req.method = "POST"
    /\ req.operation = "decline"
    /\ req.username \in Users
    /\ authors[req.username].application_status = "OH"
    /\ authors[req.username].application_date = NULL
    /\ resp.kind = "redirect"
    /\ HasNote(resp, "success")
    /\ Len(messages) = 1 /\ Len(emails) = 1 /\ Len(audit) = 1
    /\ \E e \in InitEntries : e.author = req.username /\ e.is_published
    /\ ~\E e \in entries : e.author = req.username /\ e.is_published

\* C6: a POST on a gate-admitted applicant with an operation other than
\* accept and decline ("delete", or none at all) changes no row of the store,
\* notifies an error and redirects to the lookup view of the same applicant.
C6_InvalidOperation ==
    [][\A u \in Users :
         (PostOn(u, Operations \ {"accept", "decline"}) /\ GateAdmitted(u))
         => /\ UNCHANGED store
            /\ resp'.kind = "redirect"
            /\ resp'.location = "admin:novice_lookup"
            /\ resp'.location_user = u
            /\ HasNote(resp', "error")]_vars
C6_Witness ==
    /\ req.view = "novice_lookup"
    /\ req.method = "POST"
    /\ req.operation = "delete"
    /\ req.username \in Users
    /\ GateAdmitted(req.username)
    /\ resp.kind = "redirect"
    /\ resp.location = "admin:novice_lookup"
    /\ resp.location_user = req.username
    /\ HasNote(resp, "error")

\* C7: once an applicant has been decided upon, every later request on the
\* applicant's lookup view finds the applicant out of the queue, is answered
\* by an error and a redirect to the list, and changes nothing; no applicant
\* gets a second decision, message, e-mail or log entry.
C7_DecisionTerminal ==
    [][/\ (req'.view = "novice_lookup" /\ req'.username \in Decided)
          => /\ ~Eligible(req'.username)
             /\ RefusedToList(resp')
             /\ UNCHANGED store
       /\ \A i \in 1..Len(audit') : \A j \in 1..Len(audit') :
             audit'[i].object_id = audit'[j].object_id => i = j]_vars
C7_Witness ==
    /\ req.view = "novice_lookup"
    /\ req.method = "POST"
    /\ req.operation \in {"accept", "decline"}
    /\ req.username \in Decided
    /\ RefusedToList(resp)
    /\ Len(audit) = 1 /\ Len(messages) = 1 /\ Len(emails) = 1

\* C8: for every limit N, novice_list(N) is the first min(N, size) entries of
\* the unlimited ordering, and the unlimited call returns the whole eligible
\* set; the list view shows the first 10 of the queue and counts all of it.
C8_LimitIsPrefix ==
    /\ \A tb \in TieOrders :
          LET q == novice_list(authors, tb, NULL)
          IN  /\ Len(q) = Cardinality(EligibleSet)
              /\ SeqRange(q) = EligibleSet
              /\ \A N \in 0..(NUsers + 1) :
                    novice_list(authors, tb, N) = SubSeq(q, 1, Min(N, Len(q)))
    /\ (req.view = "novice_list" /\ resp.kind = "render")
          => /\ resp.novice_count = Cardinality(EligibleSet)
             /\ Len(resp.object_list) = Min(ListLimit, Cardinality(EligibleSet))
             /\ \E tb \in TieOrders :
                   resp.object_list =
                       SubSeq(novice_list(authors, tb, NULL), 1, Len(resp.object_list))
C8_Witness ==
    /\ req.view = "novice_list"
    /\ resp.kind = "render"
    /\ Cardinality(EligibleSet) > ListLimit
    /\ Len(resp.object_list) = ListLimit
    /\ resp.novice_count = Cardinality(EligibleSet)

\* C9: when the queue holds exactly one eligible applicant and that applicant
\* is the current one, get_next_username returns none.
C9_NextOfSingleton ==
    (/\ req.view = "novice_lookup"
     /\ req.method = "GET"
     /\ resp.kind = "render"
     /\ EligibleSet = {req.username})
    => resp.next = NULL
C9_Witness ==
    /\ req.view = "novice_lookup"
    /\ req.method = "GET"
    /\ resp.kind = "render"
    /\ EligibleSet = {req.username}
    /\ authors[req.username].last_activity > time_threshold_24h
    /\ resp.next = NULL

\* C10: get_next_username returns the applicant right after the current one
\* in the novice_list() ordering, and none only when the current applicant
\* is the last of the queue.
C10_NextIsFollower ==
    (/\ req.view = "novice_lookup"
     /\ req.method = "GET"
     /\ resp.kind = "render")
    => \E tb \in TieOrders :
          LET q == novice_list(authors, tb, NULL)
              i == CHOOSE k \in 1..Len(q) : q[k] = req.username
          IN  resp.next = IF i = Len(q) THEN NULL ELSE q[i + 1]

\* A step serves an accept or a decline on applicant u, whom the gate admits.
Decision(u) == PostOn(u, {"accept", "decline"}) /\ GateAdmitted(u)

C13_MailFailureKeepsWrites ==
    [][\A u \in Users :
         Decision(u)
         => /\ \/ resp'.kind = "error500"
               \/ resp'.kind = "redirect" /\ HasNote(resp', "success")
            /\ resp'.kind = "error500"
               => /\ resp'.notes = <<>>
                  /\ resp'.location = "" /\ resp'.location_user = NULL
                  /\ authors'[u].application_status =
                        (IF req'.operation = "accept" THEN "AP" ELSE "OH")
                  /\ req'.operation = "accept" => ~authors'[u].is_novice
                  /\ req'.operation = "decline"
                        => /\ authors'[u].application_date = NULL
                           /\ ~\E e \in entries' : e.author = u /\ e.is_published
                  /\ Len(audit') = Len(audit) + 1
                  /\ audit'[Len(audit')].object_id = u
                  /\ Len(messages') = Len(messages) + 1
                  /\ messages'[Len(messages')].recipient = u
                  /\ u \notin EligibleSet']_vars
C13_Witness ==
    /\ req.view = "novice_lookup"
    /\ req.method = "POST"
    /\ req.operation = "decline"
    /\ req.username \in Users
    /\ resp.kind = "error500"
    /\ resp.notes = <<>>
    /\ authors[req.username].application_status = "OH"
    /\ authors[req.username].application_date = NULL
    /\ ~\E e \in entries : e.author = req.username /\ e.is_published
    /\ Len(audit) = 1 /\ audit[1].object_id = req.username
    /\ Len(messages) = 1 /\ messages[1].recipient = req.username
    /\ req.username \notin EligibleSet

\* C16: a decline deletes the published entries of the declined applicant
\* and no other entry: the applicant's drafts and every entry of the other
\* authors stay; no field of another author changes; the declined applicant
\* is still a novice.
C16_DeclineFrame ==
    [][\A u \in Users :
         (PostOn(u, {"decline"}) /\ GateAdmitted(u))
         => /\ entries' = {e \in entries : ~(e.author = u /\ e.is_published)}
            /\ \A v \in Users \ {u} : authors'[v] = authors[v]
            /\ authors'[u].is_novice
            /\ authors'[u].last_activity = authors[u].last_activity]_vars
C16_Witness ==
    /\ req.view = "novice_lookup"
    /\ req.method = "POST"
    /\ req.operation = "decline"
    /\ req.username \in Users
    /\ authors[req.username].application_status = "OH"
    /\ authors[req.username].is_novice
    /\ \E e \in entries : e.author = req.username /\ ~e.is_published
    /\ ~\E e \in entries : e.author = req.username /\ e.is_published
    /\ \A e \in InitEntries : e.author # req.username => e \in entries
    /\ \E c \in Cuts : \A v \in Users \ {req.username} : authors[v] = CutStore(c)[v]

\* C14: when the lookup view of an admitted applicant shows a next username
\* and the admin accepts or declines the applicant with that username as the
\* submit type, the request the redirect leads to, the lookup view of the
\* next applicant, passes the gate and is rendered.
C14_ContinueAdmitted ==
    [][(/\ req.view = "novice_lookup"
        /\ req.method = "POST"
        /\ req.operation \in {"accept", "decline"}
        /\ resp.kind = "redirect"
        /\ resp.location = "admin:novice_lookup"
        /\ req'.view = "novice_lookup"
        /\ req'.method = "GET"
        /\ req'.username = resp.location_user)
       => resp'.kind = "render"]_vars

\* What the logs hold about applicant u.
AuditAbout(u) == {i \in 1..Len(audit) : audit[i].object_id = u}
MessagesTo(u) == {i \in 1..Len(messages) : messages[i].recipient = u}
MailsTo(u) == {i \in 1..Len(emails) : emails[i].to = u}
\* Admin a's request was a decision that ran to its end.
Ran(a) == inflight[a].pc \in {"done", "failed"}

\* C12: decisions of two admins on the same applicant do not exclude each
\* other: a request that has passed the gate is never held back by what
\* another request wrote meanwhile, and when both admins' decisions on one
\* applicant have run, the applicant has two log entries (one by each
\* admin), two messages and two send_mail calls.
C12_NoMutualExclusion ==
    /\ \A a \in RaceAdmins : inflight[a].pc \in Writing => ENABLED RaceWrite(a)
    /\ \A a \in RaceAdmins : \A b \in RaceAdmins \ {a} :
          (Ran(a) /\ Ran(b) /\ inflight[a].username = inflight[b].username)
          => LET u == inflight[a].username
             IN  /\ Cardinality(AuditAbout(u)) = 2
                 /\ \E i \in AuditAbout(u) : audit[i].user = a
                 /\ \E i \in AuditAbout(u) : audit[i].user = b
                 /\ Cardinality(MessagesTo(u)) = 2
                 /\ Cardinality(MailsTo(u)) = 2
C12_Witness ==
    /\ inflight["admin1"].pc = "done" /\ inflight["admin2"].pc = "done"
    /\ inflight["admin1"].username = 1 /\ inflight["admin2"].username = 1
    /\ inflight["admin1"].operation = "accept"
    /\ inflight["admin2"].operation = "decline"
    /\ Len(audit) = 2
    /\ {audit[1].change_message, audit[2].change_message} = {"accepted", "declined"}
    /\ {audit[1].user, audit[2].user} = RaceAdmins
    /\ AuditAbout(1) = {1, 2} /\ MessagesTo(1) = {1, 2} /\ MailsTo(1) = {1, 2}

\* C15: in every state of every interleaving of the admins' requests, saves
\* of stale copies included, an author is no novice exactly when the
\* author's application is accepted.
C15_NoviceIffNotAccepted ==
    \A u \in Users :
        (~authors[u].is_novice) <=> (authors[u].application_status = "AP")
\* An accept and a decline of the same applicant have both run, and the
\* decline saved its copy last.
C15_Witness ==
    \E u \in 1..NRace :
        /\ \A a \in RaceAdmins : Ran(a) /\ inflight[a].username = u
        /\ \E i \in AuditAbout(u) : audit[i].change_message = "accepted"
        /\ \E i \in AuditAbout(u) : audit[i].change_message = "declined"
        /\ authors[u].application_status = "OH"
        /\ authors[u].is_novice

====
